---- MODULE Spec2Model ----
(***************************************************************************)
(* Model of reddwarf/common/wsgi.py: content negotiation, version routing, *)
(* exception-to-fault mapping, fault rendering, response serialization,    *)
(* request-context extraction and the fault-wrapping middleware.           *)
(*                                                                         *)
(* Strings that the code takes apart (paths, the raw Accept header, class  *)
(* names) are sequences of tokens; a token is a piece of text the code     *)
(* never looks inside.  Python's None is the empty sequence wherever the   *)
(* other values are non-empty sequences, and a record [kind |-> "None"]    *)
(* wherever the other values are records.                                  *)
(***************************************************************************)
EXTENDS Integers, Sequences, FiniteSets, TLC

VARIABLES
    handler,    \* the handler that processed the current request
    self,       \* the receiver's configuration (urlmap, admin_roles, ...)
    request,    \* [path, accept, headers, params] of the current request
    args,       \* the handler's other inputs (what the collaborators did)
    result,     \* what the handler returned or raised
    environ,    \* request.environ[CONTEXT_KEY]
    log,        \* records written to LOG while handling the request
    response    \* the document sent to the client once a Fault is called

vars == <<handler, self, request, args, result, environ, log, response>>

----------------------------------------------------------------------------
(* Bounds *)

MaxPathLen == 3
MaxRanges == 1
MaxKeys == 3
MaxRoles == 2

----------------------------------------------------------------------------
(* Generic helpers *)

None == <<>>
NoneObj == [kind |-> "None"]

Min(S) == CHOOSE x \in S : \A y \in S : x <= y
Max(S) == CHOOSE x \in S : \A y \in S : x >= y

SeqsUpTo(S, n) == UNION {[1..k -> S] : k \in 0..n}

Digits == {"0", "1", "2"}

\* Number of consecutive digit tokens of s starting at position i (\d*).
RECURSIVE DigitRun(_, _)
DigitRun(s, i) ==
    IF i <= Len(s) /\ s[i] \in Digits THEN 1 + DigitRun(s, i + 1) ELSE 0

\* The text matched by \d+\.?\d* at position i (greedy), <<>> if no digit there.
VersionNoAt(s, i) ==
    LET n1 == DigitRun(s, i)
        dot == IF n1 > 0 /\ i + n1 <= Len(s) /\ s[i + n1] = "." THEN 1 ELSE 0
        n2 == DigitRun(s, i + n1 + dot)
    IN  IF n1 = 0 THEN <<>> ELSE SubSeq(s, i, i + n1 + dot + n2 - 1)

----------------------------------------------------------------------------
(* Requests *)

VENDOR == "application/vnd.openstack.reddwarf"

PathTokens == {"/", "v", "1", ".", "json", "xml"}
RouteTokens == {"/", "v", "1", "."}

MediaTypes == {"vendor", "vendor+json", "vendor+xml",
               "application/json", "application/xml", "*/*"}

Versions == {<<"1", ".", "0">>, <<"2">>}

\* A media range of an Accept header: a type and an optional version parameter.
PlainRanges == [type : MediaTypes, version : {None}]
VersionedRanges == [type : {"vendor", "vendor+json", "application/json"},
                    version : Versions \cup {None}]

TypeTokens(t) ==
    CASE t = "vendor"      -> <<VENDOR>>
      [] t = "vendor+json" -> <<VENDOR, "+", "json">>
      [] t = "vendor+xml"  -> <<VENDOR, "+", "xml">>
      [] OTHER             -> <<t>>

RangeTokens(r) ==
    TypeTokens(r.type) \o
    (IF r.version = None THEN <<>> ELSE <<";version=">> \o r.version)

\* The raw text of the Accept header, as the server receives it.
RECURSIVE HeaderText(_)
HeaderText(ranges) ==
    IF ranges = <<>> THEN <<>>
    ELSE RangeTokens(Head(ranges)) \o
         (IF Len(ranges) > 1 THEN <<",">> \o HeaderText(Tail(ranges)) ELSE <<>>)

\* Header and parameter dictionaries hold a token sequence for each key sent.
NoHeaders == [n \in {} |-> <<>>]
NoParams == [n \in {} |-> <<>>]

MakeRequest(path, accept) ==
    [path |-> path, accept |-> accept, headers |-> NoHeaders, params |-> NoParams]

NoRequest == MakeRequest(<<>>, <<>>)

\* Requests offered to content negotiation: any path, headers without versions.
NegotiationRequests ==
    {MakeRequest(p, a) : p \in SeqsUpTo(PathTokens, MaxPathLen),
                         a \in SeqsUpTo(PlainRanges, MaxRanges)}

\* Requests offered to version routing: paths without extension, headers of
\* vendor and generic ranges with and without a version.
RoutingRequests ==
    {MakeRequest(p, a) : p \in SeqsUpTo(RouteTokens, MaxPathLen),
                         a \in SeqsUpTo(VersionedRanges, MaxRanges)}

\* Requests offered to the resource layer: one resource, each extension.
ResourceRequests ==
    {MakeRequest(p, <<>>) : p \in {<<"/", "v">>, <<"/", "v", ".", "json">>,
                                   <<"/", "v", ".", "xml">>}}

----------------------------------------------------------------------------
(* Request.best_match_content_type *)

\* str.rsplit('.', 1)
rsplit(path) ==
    LET dots == {i \in 1..Len(path) : path[i] = "."}
    IN  IF dots = {} THEN <<path>>
        ELSE <<SubSeq(path, 1, Max(dots) - 1),
               SubSeq(path, Max(dots) + 1, Len(path))>>

\* 'application/{0}'.format(ext)
format_application(ext) ==
    CASE ext = "json" -> "application/json"
      [] ext = "xml"  -> "application/xml"

ctypes ==
    [t \in {"vendor+json", "vendor+xml", "application/json", "application/xml"} |->
        CASE t = "vendor+json"      -> "application/json"
          [] t = "vendor+xml"       -> "application/xml"
          [] t = "application/json" -> "application/json"
          [] t = "application/xml"  -> "application/xml"]

\* webob's Accept.best_match over the offers: the offers it may return.  Every
\* range has quality 1; an exact range beats the wildcard; among equally good
\* offers the first in the dictionary's (unspecified) key order is returned.
\* Without an Accept header every offer is acceptable.  "" stands for no match.
best_match(accept, offers) ==
    LET masks == {accept[i].type : i \in 1..Len(accept)}
        exact == offers \cap masks
    IN  IF accept = <<>> THEN offers
        ELSE IF exact /= {} THEN exact
        ELSE IF "*/*" \in masks THEN offers
        ELSE {""}

ctypes_get(bm) == IF bm \in DOMAIN ctypes THEN ctypes[bm] ELSE "application/json"

\* Mutant: the Accept header is consulted before the extension.
best_match_content_type_accept_first(req) ==
    LET parts == rsplit(req.path)
        bms == best_match(req.accept, DOMAIN ctypes) \ {""}
    IN  IF req.accept /= <<>> /\ bms /= {}
        THEN {ctypes_get(bm) : bm \in bms}
        ELSE IF Len(parts) > 1 /\ parts[2] \in {<<"json">>, <<"xml">>}
        THEN {format_application(parts[2][1])}
        ELSE {"application/json"}

\* The content types best_match_content_type may return for the request.
best_match_content_type(req) ==
    LET parts == rsplit(req.path)
    IN  IF Len(parts) > 1 /\ parts[2] \in {<<"json">>, <<"xml">>}
        THEN {format_application(parts[2][1])}
        ELSE {ctypes_get(bm) : bm \in best_match(req.accept, DOMAIN ctypes)}

----------------------------------------------------------------------------
(* Request.accept_version and Request.url_version *)

\* ;version=\d at position k of the header text
VersionParamAt(s, k) ==
    k + 1 <= Len(s) /\ s[k] = ";version=" /\ s[k + 1] \in Digits

\* Positions of ';version=' reachable through the group (\+.+?) from vendor at i.
GroupEnds(s, i) ==
    IF i + 1 <= Len(s) /\ s[i + 1] = "+"
    THEN {k \in (i + 3)..Len(s) : VersionParamAt(s, k)}
    ELSE {}

AcceptMatchAt(s, i) ==
    s[i] = VENDOR /\ (GroupEnds(s, i) /= {} \/ VersionParamAt(s, i + 1))

accept_version(req) ==
    LET s == HeaderText(req.accept)
        starts == {i \in 1..Len(s) : AcceptMatchAt(s, i)}
    IN  IF starts = {} THEN None
        ELSE LET i == Min(starts)
                 k == IF GroupEnds(s, i) /= {} THEN Min(GroupEnds(s, i)) ELSE i + 1
             IN  VersionNoAt(s, k + 1)

url_version(req) ==
    LET p == req.path
        starts == {i \in 1..Len(p) : /\ i + 2 <= Len(p)
                                     /\ p[i] = "/" /\ p[i + 1] = "v"
                                     /\ p[i + 2] \in Digits}
    IN  IF starts = {} THEN None ELSE VersionNoAt(p, Min(starts) + 2)

----------------------------------------------------------------------------
(* webob.exc classes used by the module *)

HTTPClasses == {"HTTPBadRequest", "HTTPUnauthorized", "HTTPForbidden",
                "HTTPNotFound", "HTTPMethodNotAllowed", "HTTPNotAcceptable",
                "HTTPConflict", "HTTPRequestEntityTooLarge",
                "HTTPUnprocessableEntity", "HTTPServerError",
                "HTTPInternalServerError"}

status_int(cls) ==
    CASE cls = "HTTPBadRequest"            -> 400
      [] cls = "HTTPUnauthorized"          -> 401
      [] cls = "HTTPForbidden"             -> 403
      [] cls = "HTTPNotFound"              -> 404
      [] cls = "HTTPMethodNotAllowed"      -> 405
      [] cls = "HTTPNotAcceptable"         -> 406
      [] cls = "HTTPConflict"              -> 409
      [] cls = "HTTPRequestEntityTooLarge" -> 413
      [] cls = "HTTPUnprocessableEntity"   -> 422
      [] cls = "HTTPServerError"           -> 500
      [] cls = "HTTPInternalServerError"   -> 500

\* The class's generic explanation text.
explanation(cls) ==
    CASE cls = "HTTPBadRequest"            -> "malformed or incorrect request"
      [] cls = "HTTPUnauthorized"          -> "could not verify access"
      [] cls = "HTTPForbidden"             -> "access was denied"
      [] cls = "HTTPNotFound"              -> "resource could not be found"
      [] cls = "HTTPMethodNotAllowed"      -> "method not allowed"
      [] cls = "HTTPNotAcceptable"         -> "resource could not be generated"
      [] cls = "HTTPConflict"              -> "there was a conflict"
      [] cls = "HTTPRequestEntityTooLarge" -> "request body too large"
      [] cls = "HTTPUnprocessableEntity"   -> "unable to process instructions"
      [] cls = "HTTPServerError"           -> "server erred"
      [] cls = "HTTPInternalServerError"   -> "server erred or is incapable"

\* cls.__name__ as tokens: the marker "HTTP", then initial letter and remainder.
class_name(cls) ==
    CASE cls = "HTTPBadRequest"            -> <<"HTTP", "B", "adRequest">>
      [] cls = "HTTPUnauthorized"          -> <<"HTTP", "U", "nauthorized">>
      [] cls = "HTTPForbidden"             -> <<"HTTP", "F", "orbidden">>
      [] cls = "HTTPNotFound"              -> <<"HTTP", "N", "otFound">>
      [] cls = "HTTPMethodNotAllowed"      -> <<"HTTP", "M", "ethodNotAllowed">>
      [] cls = "HTTPNotAcceptable"         -> <<"HTTP", "N", "otAcceptable">>
      [] cls = "HTTPConflict"              -> <<"HTTP", "C", "onflict">>
      [] cls = "HTTPRequestEntityTooLarge" -> <<"HTTP", "R", "equestEntityTooLarge">>
      [] cls = "HTTPUnprocessableEntity"   -> <<"HTTP", "U", "nprocessableEntity">>
      [] cls = "HTTPServerError"           -> <<"HTTP", "S", "erverError">>
      [] cls = "HTTPInternalServerError"   -> <<"HTTP", "I", "nternalServerError">>

\* An instance of a webob.exc class: cls(detail); "" is no detail.
HTTPExc(cls, detail) == [cls |-> cls, detail |-> detail]

----------------------------------------------------------------------------
(* Fault *)

\* Fault(exception): the constructor keeps the exception it wraps.
Fault(exc) == [kind |-> "Fault", wrapped_exc |-> exc]

named_exceptions ==
    [n \in {"HTTPBadRequest", "HTTPUnauthorized", "HTTPForbidden", "HTTPNotFound",
            "HTTPMethodNotAllowed", "HTTPRequestEntityTooLarge",
            "HTTPUnsupportedMediaType", "HTTPInternalServerError",
            "HTTPNotImplemented", "HTTPServiceUnavailable"} |->
        CASE n = "HTTPBadRequest"            -> <<"b", "adRequest">>
          [] n = "HTTPUnauthorized"          -> <<"u", "nauthorized">>
          [] n = "HTTPForbidden"             -> <<"f", "orbidden">>
          [] n = "HTTPNotFound"              -> <<"i", "temNotFound">>
          [] n = "HTTPMethodNotAllowed"      -> <<"b", "adMethod">>
          [] n = "HTTPRequestEntityTooLarge" -> <<"o", "verLimit">>
          [] n = "HTTPUnsupportedMediaType"  -> <<"b", "adMediaType">>
          [] n = "HTTPInternalServerError"   -> <<"i", "nstanceFault">>
          [] n = "HTTPNotImplemented"        -> <<"n", "otImplemented">>
          [] n = "HTTPServiceUnavailable"    -> <<"s", "erviceUnavailable">>]

\* str.lower() of an initial letter
lower(c) ==
    CASE c = "B" -> "b" [] c = "C" -> "c" [] c = "F" -> "f" [] c = "I" -> "i"
      [] c = "M" -> "m" [] c = "N" -> "n" [] c = "R" -> "r" [] c = "S" -> "s"
      [] c = "U" -> "u" [] OTHER -> c

\* name.split("HTTP").pop()
split_HTTP_pop(name) ==
    LET marks == {i \in 1..Len(name) : name[i] = "HTTP"}
    IN  IF marks = {} THEN name ELSE SubSeq(name, Max(marks) + 1, Len(name))

_get_error_name(exc) ==
    IF exc.cls \in DOMAIN named_exceptions THEN named_exceptions[exc.cls]
    ELSE LET name == split_HTTP_pop(class_name(exc.cls))
         IN  IF name = <<>> THEN name ELSE <<lower(name[1])>> \o Tail(name)

\* Mutant: no fallback to the explanation when the exception has no detail.
fault_data_no_fallback(exc) ==
    LET fault_name == _get_error_name(exc)
    IN  [n \in {fault_name} |->
            IF exc.detail /= ""
            THEN [code |-> status_int(exc.cls), message |-> exc.detail]
            ELSE [code |-> status_int(exc.cls)]]

\* The fault_data mapping Fault.__call__ builds.
fault_data(exc) ==
    LET fault_name == _get_error_name(exc)
        message == IF exc.detail /= "" THEN exc.detail ELSE explanation(exc.cls)
    IN  [n \in {fault_name} |->
            [code |-> status_int(exc.cls), message |-> message]]

\* openstack_wsgi's fault serializers: JSON keeps the mapping; XML makes the
\* single key the root element, the keys named by the attribute map attributes
\* of it and the other keys child elements.
serialize_fault(data, content_type) ==
    IF content_type = "application/json"
    THEN [format |-> "json", document |-> data]
    ELSE LET root == CHOOSE n \in DOMAIN data : TRUE
         IN  [format |-> "xml", root |-> root,
              attributes |-> [k \in {"code"} |-> data[root][k]],
              children |-> [k \in DOMAIN data[root] \ {"code"} |-> data[root][k]]]

\* Fault.__call__: the response the client receives for the negotiated type.
Fault__call__(fault, content_type) ==
    [status |-> status_int(fault.wrapped_exc.cls),
     content_type |-> content_type,
     fault_data |-> fault_data(fault.wrapped_exc),
     body |-> serialize_fault(fault_data(fault.wrapped_exc), content_type)]

----------------------------------------------------------------------------
(* VersionedURLMap *)

\* The sub-applications the deployment mounts, by path prefix.
URLMaps == {{<<"/", "v", "1", ".", "0">>}, {<<"/", "v", "1">>, <<"/", "v", "2">>}}

\* Mutant: the version of the URL is not looked at.
select_app_ignoring_url(urlmap, req) ==
    IF accept_version(req) /= None
    THEN LET version == <<"/", "v">> \o accept_version(req)
         IN  IF version \in urlmap
             THEN [kind |-> "subapp", key |-> version]
             ELSE Fault(HTTPExc("HTTPNotAcceptable", "version not supported"))
    ELSE [kind |-> "urlmap"]

\* The application VersionedURLMap.__call__ selects.
select_app(urlmap, req) ==
    IF url_version(req) = None /\ accept_version(req) /= None
    THEN LET version == <<"/", "v">> \o accept_version(req)
         IN  IF version \in urlmap
             THEN [kind |-> "subapp", key |-> version]
             ELSE Fault(HTTPExc("HTTPNotAcceptable", "version not supported"))
    ELSE [kind |-> "urlmap"]

----------------------------------------------------------------------------
(* Result and the values an action may return *)

Keys == {"links", "instance", "instances", "flavor"}

\* A dictionary, as the sequence of its keys in iteration order.
Mappings == {m \in SeqsUpTo(Keys, MaxKeys) :
                \A i, j \in 1..Len(m) : i /= j => m[i] /= m[j]}

\* Result(data, status=200)
Result(data, status) == [kind |-> "Result", data |-> data, status |-> status]

\* webob.Response(status=...)
Response(status) == [kind |-> "Response", status |-> status]

IsDict(v) == v.kind = "dict"
Dict(m) == [kind |-> "dict", keys |-> m]

\* Result.data(serialization_type); a plain dictionary has no projections.
HasXml(data) == "data_for_xml" \in DOMAIN data
HasJson(data) == "data_for_json" \in DOMAIN data

\* The dictionaries a view object returns from data_for_xml / data_for_json.
Projections == {Dict(m) : m \in {n \in Mappings : Len(n) <= 1}}

\* View objects: each may define data_for_xml, data_for_json, both or neither.
ViewObjects ==
    {[kind |-> "object"]}
    \cup {[kind |-> "object", data_for_xml |-> x] : x \in Projections}
    \cup {[kind |-> "object", data_for_json |-> j] : j \in Projections}
    \cup {[kind |-> "object", data_for_xml |-> x, data_for_json |-> j] :
            x \in Projections, j \in Projections}

\* What a Result may hold as _data.
Payloads == {Dict(m) : m \in Mappings} \cup ViewObjects

\* Mutant: the projection is chosen without looking at the serialization type.
Result_data_json_first(res, serialization_type) ==
    IF HasJson(res.data) THEN res.data.data_for_json
    ELSE IF HasXml(res.data) THEN res.data.data_for_xml
    ELSE res.data

Result_data(res, serialization_type) ==
    IF serialization_type = "application/xml" /\ HasXml(res.data)
    THEN res.data.data_for_xml
    ELSE IF HasJson(res.data) THEN res.data.data_for_json
    ELSE res.data

----------------------------------------------------------------------------
(* Resource.execute_action *)

\* Controller.exception_map: webob class -> the error types listed under it.
exception_map ==
    [c \in {"HTTPUnprocessableEntity", "HTTPUnauthorized", "HTTPBadRequest",
            "HTTPNotFound", "HTTPConflict", "HTTPRequestEntityTooLarge",
            "HTTPServerError"} |->
        CASE c = "HTTPUnprocessableEntity" -> <<"UnprocessableEntity">>
          [] c = "HTTPUnauthorized" -> <<"Forbidden">>
          [] c = "HTTPBadRequest" ->
                <<"InvalidModelError", "BadRequest", "CannotResizeToSameSize",
                  "BadValue", "DatabaseAlreadyExists", "UserAlreadyExists">>
          [] c = "HTTPNotFound" ->
                <<"NotFound", "ComputeInstanceNotFound", "ModelNotFoundError",
                  "UserNotFound", "DatabaseNotFound", "QuotaResourceUnknown">>
          [] c = "HTTPConflict" -> <<>>
          [] c = "HTTPRequestEntityTooLarge" ->
                <<"OverLimit", "QuotaExceeded", "VolumeQuotaExceeded">>
          [] c = "HTTPServerError" ->
                <<"VolumeCreationFailure", "UpdateGuestError">>]

Range(seq) == {seq[i] : i \in 1..Len(seq)}

\* Resource._invert_dict_list: every listed value mapped to the key listing it.
_invert_dict_list(exception_dict) ==
    [value \in UNION {Range(exception_dict[key]) : key \in DOMAIN exception_dict} |->
        CHOOSE key \in DOMAIN exception_dict : value \in Range(exception_dict[key])]

\* Resource.__init__, as Controller.create_resource calls it.
model_exception_map == _invert_dict_list(exception_map)

\* Mutant: the table is not consulted.
_get_http_error_always_default(error_type) == "HTTPBadRequest"

\* Resource._get_http_error: lookup by the error's own type, default 400.
_get_http_error(error_type) ==
    IF error_type \in DOMAIN model_exception_map
    THEN model_exception_map[error_type]
    ELSE "HTTPBadRequest"

\* ReddwarfError types that no list of the table names; DnsRecordNotFound
\* derives from the registered NotFound.
UnregisteredErrors == {"ReddwarfError", "GuestError", "DnsRecordNotFound"}
ReddwarfErrors == DOMAIN model_exception_map \cup UnregisteredErrors

\* str(error) of the errors business logic raises.
ErrorTexts == {"", "instance 7 busy", "db password is hunter2"}

\* What the controller's action does when the base class invokes it.
ActionOutcomes ==
    {[kind |-> "return", value |-> Dict(m)] : m \in Mappings}
    \cup {[kind |-> "return", value |-> Result(Dict(m), 202)] : m \in Mappings}
    \cup {[kind |-> "return", value |-> Response(202)],
          [kind |-> "return", value |-> NoneObj]}
    \cup {[kind |-> "raise", family |-> "ReddwarfError", type |-> t, text |-> x] :
            t \in ReddwarfErrors, x \in ErrorTexts}
    \cup {[kind |-> "raise", family |-> "HTTPError", type |-> c, text |-> x] :
            c \in HTTPClasses, x \in ErrorTexts}
    \cup {[kind |-> "raise", family |-> "Exception", type |-> t, text |-> x] :
            t \in {"Exception", "KeyError"}, x \in ErrorTexts}

LogRecord(level, msg) == [level |-> level, msg |-> msg]

\* Resource.execute_action: what it returns and what it logs.
execute_action(has_action, outcome) ==
    IF ~has_action
    THEN [value |-> Fault(HTTPExc("HTTPNotFound", "")), log |-> <<>>]
    ELSE IF outcome.kind = "return"
    THEN [value |-> IF IsDict(outcome.value) THEN Result(outcome.value, 200)
                    ELSE outcome.value,
          log |-> <<>>]
    ELSE IF outcome.family = "ReddwarfError"
    THEN [value |-> Fault(HTTPExc(_get_http_error(outcome.type), outcome.text)),
          log |-> <<LogRecord("debug", "traceback")>>]
    ELSE IF outcome.family = "HTTPError"
    THEN [value |-> Fault(HTTPExc(outcome.type, outcome.text)),
          log |-> <<LogRecord("debug", "traceback")>>]
    ELSE [value |-> Fault(HTTPExc("HTTPInternalServerError", outcome.text)),
          log |-> <<LogRecord("exception", outcome.text)>>]

----------------------------------------------------------------------------
(* ReddwarfXMLDictSerializer.default *)

\* The loop over the keys: <<has_links, root_key, failed>> after the keys of
\* data from position i on; root_key is <<>> while no root has been chosen.
RECURSIVE scan_keys(_, _, _, _)
scan_keys(data, i, has_links, root_key) ==
    IF i > Len(data) THEN [has_links |-> has_links, root_key |-> root_key,
                           multiple |-> FALSE]
    ELSE IF data[i] = "links" THEN scan_keys(data, i + 1, TRUE, root_key)
    ELSE IF root_key = None THEN scan_keys(data, i + 1, has_links, <<data[i]>>)
    ELSE [has_links |-> has_links, root_key |-> root_key, multiple |-> TRUE]

\* Mutant: the first key other than 'links' is the root, later ones are dropped.
xml_default_first_root(data) ==
    LET roots == {i \in 1..Len(data) : data[i] /= "links"}
    IN  IF roots = {}
        THEN [kind |-> "raise",
              exc |-> [type |-> "RuntimeError", text |-> "Missing root key"],
              log |-> <<LogRecord("error", "Missing root key")>>]
        ELSE [kind |-> "return",
              value |-> [root |-> data[Min(roots)],
                         children |-> IF "links" \in Range(data) THEN <<"links">>
                                      ELSE <<>>],
              log |-> <<>>]

\* default(data) for a dictionary: the document, or the error raised.
xml_default(data) ==
    LET sc == scan_keys(data, 1, FALSE, None)
    IN  IF sc.multiple
        THEN [kind |-> "raise",
              exc |-> [type |-> "RuntimeError", text |-> "multiple root keys"],
              log |-> <<LogRecord("error", "multiple root keys")>>]
        ELSE IF sc.root_key = None
        THEN [kind |-> "raise",
              exc |-> [type |-> "RuntimeError", text |-> "Missing root key"],
              log |-> <<LogRecord("error", "Missing root key")>>]
        ELSE [kind |-> "return",
              value |-> [root |-> sc.root_key[1],
                         children |-> IF sc.has_links THEN <<"links">> ELSE <<>>],
              log |-> <<>>]

----------------------------------------------------------------------------
(* Resource.serialize_response *)

ContentTypes == {"application/json", "application/xml"}

\* What execute_action may hand to serialize_response.
ActionResults ==
    {Result(Dict(m), st) : m \in Mappings, st \in {200, 202}}
    \cup {Result(v, 200) : v \in ViewObjects}
    \cup {Response(202), Response(404), NoneObj,
          Fault(HTTPExc("HTTPNotFound", ""))}

\* The base class's serialize_response: the serializer builds a response, takes
\* the status from a Result and serializes the body with the serializer of the
\* accepted type.  XML goes through ReddwarfXMLDictSerializer.default, which
\* iterates its argument and so raises TypeError for anything but a mapping;
\* whether the JSON encoder fails on the value is json_fails.
super_serialize_response(action_result, accept, json_fails) ==
    LET data == IF action_result.kind = "Result"
                THEN Result_data(action_result, accept) ELSE action_result
        status == IF action_result.kind = "Result" THEN action_result.status
                  ELSE 200
        ok(body) == [kind |-> "return",
                     value |-> [kind |-> "Response", status |-> status,
                                content_type |-> accept, body |-> body],
                     log |-> <<>>]
    IN  IF data = NoneObj THEN ok(NoneObj)
        ELSE IF accept = "application/xml"
        THEN IF IsDict(data)
             THEN LET x == xml_default(data.keys)
                  IN  IF x.kind = "raise" THEN x ELSE ok(x.value)
             ELSE [kind |-> "raise",
                   exc |-> [type |-> "TypeError", text |-> "not iterable"],
                   log |-> <<>>]
        ELSE IF json_fails
             THEN [kind |-> "raise",
                   exc |-> [type |-> "TypeError", text |-> "not JSON serializable"],
                   log |-> <<>>]
             ELSE ok(data)

\* Mutant: the failure is swallowed whatever the result is.
serialize_response_swallow(action_result, accept, json_fails) ==
    LET sup == super_serialize_response(action_result, accept, json_fails)
    IN  IF sup.kind = "return" THEN sup
        ELSE [kind |-> "return", value |-> NoneObj, log |-> sup.log]

\* Resource.serialize_response
serialize_response(action_result, accept, json_fails) ==
    LET sup == super_serialize_response(action_result, accept, json_fails)
    IN  IF sup.kind = "return" THEN sup
        ELSE IF action_result.kind /= "Response"
        THEN [kind |-> "raise", exc |-> sup.exc,
              log |-> sup.log \o <<LogRecord("error", "unserializable result detected!")>>]
        ELSE [kind |-> "return", value |-> NoneObj, log |-> sup.log]

----------------------------------------------------------------------------
(* ContextMiddleware *)

AdminRoleConfigs == {{"admin"}, {"Admin"}, {"admin", "ops"}}

RoleEntries == {"admin", "Admin", "user"}

\* str.lower()
lower_role(r) == CASE r = "Admin" -> "admin" [] OTHER -> r

\* The headers of a request: a value for each header sent.  X-Role holds the
\* comma-separated entries.
HeaderNames == {"X-Auth-Token", "X-Tenant-Id", "X-User", "X-Role"}

HeaderValues(name) ==
    CASE name = "X-Auth-Token" -> {<<"tok">>, <<>>}
      [] name = "X-Tenant-Id"  -> {<<"t1">>}
      [] name = "X-User"       -> {<<"u1">>}
      [] name = "X-Role"       -> SeqsUpTo(RoleEntries, MaxRoles)

HeaderSets ==
    UNION {{h \in [S -> UNION {HeaderValues(n) : n \in HeaderNames}] :
                \A n \in S : h[n] \in HeaderValues(n)} : S \in SUBSET HeaderNames}

ParamSets == UNION {[S -> {<<"10">>}] : S \in SUBSET {"limit", "marker", "name"}}

ContextRequests ==
    {[path |-> <<"/", "v">>, accept |-> <<>>, headers |-> h, params |-> q] :
        h \in HeaderSets, q \in ParamSets}

\* dict.get(key, default)
get(d, key, default) == IF key \in DOMAIN d THEN d[key] ELSE default

\* ''.split(','): the entries of the X-Role header; no header is one empty entry.
split_roles(value) == IF value = <<>> THEN <<"">> ELSE value

\* ContextMiddleware._extract_limits
_extract_limits(params) ==
    [key \in DOMAIN params \cap {"limit", "marker"} |-> params[key]]

\* Mutant: the token is read with headers.get('X-Auth-Token', None).
process_request_optional_token(admin_roles, req) ==
    [kind |-> "return", value |-> NoneObj,
     environ |->
        [kind |-> "ReddwarfContext",
         auth_tok |-> get(req.headers, "X-Auth-Token", None),
         tenant |-> get(req.headers, "X-Tenant-Id", None),
         user |-> get(req.headers, "X-User", None),
         is_admin |-> FALSE,
         limit |-> None,
         marker |-> None]]

\* ContextMiddleware.process_request: the KeyError of a missing X-Auth-Token,
\* or the context stored under CONTEXT_KEY.
process_request(admin_roles, req) ==
    IF "X-Auth-Token" \notin DOMAIN req.headers
    THEN [kind |-> "raise", exc |-> [type |-> "KeyError", text |-> "X-Auth-Token"],
          environ |-> NoneObj]
    ELSE LET roles == split_roles(get(req.headers, "X-Role", <<>>))
             limits == _extract_limits(req.params)
         IN  [kind |-> "return", value |-> NoneObj,
              environ |->
                [kind |-> "ReddwarfContext",
                 auth_tok |-> req.headers["X-Auth-Token"],
                 tenant |-> get(req.headers, "X-Tenant-Id", None),
                 user |-> get(req.headers, "X-User", None),
                 is_admin |-> \E i \in 1..Len(roles) :
                                 lower_role(roles[i]) \in admin_roles,
                 limit |-> get(limits, "limit", None),
                 marker |-> get(limits, "marker", None)]]

\* Middleware.__call__ of the base class: process_request first; the wrapped
\* application is called only once process_request has returned.
middleware_call(admin_roles, req) ==
    LET pr == process_request(admin_roles, req)
    IN  IF pr.kind = "raise"
        THEN [kind |-> "raise", exc |-> pr.exc, environ |-> pr.environ,
              application_called |-> FALSE]
        ELSE [kind |-> "return", value |-> [kind |-> "Response", status |-> 200],
              environ |-> pr.environ, application_called |-> TRUE]

----------------------------------------------------------------------------
(* FaultWrapper *)

code_wrapper ==
    [code \in {400, 401, 403, 404} |->
        CASE code = 400 -> "HTTPBadRequest"
          [] code = 401 -> "HTTPUnauthorized"
          [] code = 403 -> "HTTPUnauthorized"
          [] code = 404 -> "HTTPNotFound"]

resp_codes == DOMAIN code_wrapper

\* What the wrapped application does: a response with a status and a header
\* list, or an exception.
DownstreamStatuses == {200, 400, 401, 403, 404, 409, 500}
DownstreamHeaderLists ==
    {<<>>,
     <<[header |-> "Content-Type", value |-> "text/plain; charset=UTF-8"]>>,
     <<[header |-> "Content-Type", value |-> "application/json"]>>,
     <<[header |-> "Content-Length", value |-> "0"],
       [header |-> "Content-Type", value |-> "text/plain; charset=UTF-8"]>>,
     <<[header |-> "Content-Type", value |-> "text/html; charset=UTF-8"]>>}

DownstreamOutcomes ==
    {[kind |-> "return",
      value |-> [kind |-> "Response", status |-> st, headerlist |-> hl]] :
        st \in DownstreamStatuses, hl \in DownstreamHeaderLists}
    \cup {[kind |-> "raise", type |-> "Exception", text |-> x] : x \in ErrorTexts}

\* Mutant: the Content-Type of the downstream response is not looked at.
fault_wrapper_any_content_type(downstream) ==
    IF downstream.kind = "raise"
    THEN [value |-> Fault(HTTPExc("HTTPInternalServerError", "")),
          log |-> <<LogRecord("exception", downstream.text)>>]
    ELSE LET resp == downstream.value
         IN  IF resp.status \in resp_codes
             THEN [value |-> Fault(HTTPExc(code_wrapper[resp.status], "")),
                   log |-> <<>>]
             ELSE [value |-> resp, log |-> <<>>]

\* FaultWrapper.__call__: what it returns and logs.
fault_wrapper(downstream) ==
    IF downstream.kind = "raise"
    THEN [value |-> Fault(HTTPExc("HTTPInternalServerError", "")),
          log |-> <<LogRecord("exception", downstream.text)>>]
    ELSE LET resp == downstream.value
         IN  IF /\ resp.status \in resp_codes
                /\ \E i \in 1..Len(resp.headerlist) :
                      /\ resp.headerlist[i].header = "Content-Type"
                      /\ resp.headerlist[i].value = "text/plain; charset=UTF-8"
             THEN [value |-> Fault(HTTPExc(code_wrapper[resp.status], "")),
                   log |-> <<>>]
             ELSE [value |-> resp, log |-> <<>>]

----------------------------------------------------------------------------
(* Initial state and actions *)

Init ==
    /\ handler = "none"
    /\ self = NoneObj
    /\ request = NoRequest
    /\ args = NoneObj
    /\ result = NoneObj
    /\ environ = NoneObj
    /\ log = <<>>
    /\ response = NoneObj

\* Request.best_match_content_type()
BestMatchContentType ==
    /\ handler = "none"
    /\ \E req \in NegotiationRequests :
       \E ctype \in best_match_content_type(req) :
        /\ handler' = "best_match_content_type"
        /\ self' = NoneObj
        /\ request' = req
        /\ args' = NoneObj
        /\ result' = [kind |-> "return", value |-> ctype]
        /\ environ' = NoneObj
        /\ log' = <<>>
        /\ response' = NoneObj

\* VersionedURLMap.__call__(environ, start_response)
VersionedURLMapCall ==
    /\ handler = "none"
    /\ \E urlmap \in URLMaps :
       \E req \in RoutingRequests :
       \E ctype \in best_match_content_type(req) :
        LET app == select_app(urlmap, req)
        IN  /\ handler' = "VersionedURLMap"
            /\ self' = [urlmap |-> urlmap]
            /\ request' = req
            /\ args' = NoneObj
            /\ result' = [kind |-> "dispatch", app |-> app]
            /\ environ' = NoneObj
            /\ log' = <<>>
            /\ response' = IF app.kind = "Fault" THEN Fault__call__(app, ctype)
                           ELSE NoneObj

\* Resource.execute_action(action, request, **action_args)
ExecuteAction ==
    /\ handler = "none"
    /\ \E req \in ResourceRequests :
       \E has_action \in BOOLEAN :
       \E outcome \in ActionOutcomes :
        LET r == execute_action(has_action, outcome)
        IN  /\ handler' = "execute_action"
            /\ self' = NoneObj
            /\ request' = req
            /\ args' = [has_action |-> has_action, outcome |-> outcome]
            /\ result' = [kind |-> "return", value |-> r.value]
            /\ environ' = NoneObj
            /\ log' = r.log
            /\ response' = NoneObj

\* ReddwarfXMLDictSerializer.default(data)
XMLDefault ==
    /\ handler = "none"
    /\ \E data \in Mappings :
        LET r == xml_default(data)
        IN  /\ handler' = "xml_default"
            /\ self' = NoneObj
            /\ request' = NoRequest
            /\ args' = [data |-> data]
            /\ result' = IF r.kind = "raise" THEN [kind |-> "raise", exc |-> r.exc]
                         ELSE [kind |-> "return", value |-> r.value]
            /\ environ' = NoneObj
            /\ log' = r.log
            /\ response' = NoneObj

\* Result.data(serialization_type), as serialize_body calls it
ResultData ==
    /\ handler = "none"
    /\ \E data \in Payloads :
       \E status \in {200, 202} :
       \E serialization_type \in ContentTypes :
        /\ handler' = "Result.data"
        /\ self' = Result(data, status)
        /\ request' = NoRequest
        /\ args' = [serialization_type |-> serialization_type]
        /\ result' = [kind |-> "return",
                      value |-> Result_data(Result(data, status), serialization_type)]
        /\ environ' = NoneObj
        /\ log' = <<>>
        /\ response' = NoneObj

\* Resource.serialize_response(action, action_result, accept)
SerializeResponse ==
    /\ handler = "none"
    /\ \E action_result \in ActionResults :
       \E accept \in ContentTypes :
       \E json_fails \in BOOLEAN :
        LET r == serialize_response(action_result, accept, json_fails)
        IN  /\ handler' = "serialize_response"
            /\ self' = NoneObj
            /\ request' = NoRequest
            /\ args' = [action_result |-> action_result, accept |-> accept,
                        json_fails |-> json_fails]
            /\ result' = IF r.kind = "raise" THEN [kind |-> "raise", exc |-> r.exc]
                         ELSE [kind |-> "return", value |-> r.value]
            /\ environ' = NoneObj
            /\ log' = r.log
            /\ response' = NoneObj

\* ContextMiddleware.__call__(request): process_request, then the application
ContextMiddlewareCall ==
    /\ handler = "none"
    /\ \E admin_roles \in AdminRoleConfigs :
       \E req \in ContextRequests :
        LET r == middleware_call(admin_roles, req)
        IN  /\ handler' = "ContextMiddleware"
            /\ self' = [admin_roles |-> admin_roles]
            /\ request' = req
            /\ args' = NoneObj
            /\ result' = IF r.kind = "raise"
                         THEN [kind |-> "raise", exc |-> r.exc,
                               application_called |-> FALSE]
                         ELSE [kind |-> "return", value |-> r.value,
                               application_called |-> TRUE]
            /\ environ' = r.environ
            /\ log' = <<>>
            /\ response' = NoneObj

\* FaultWrapper.__call__(req)
FaultWrapperCall ==
    /\ handler = "none"
    /\ \E req \in ResourceRequests :
       \E downstream \in DownstreamOutcomes :
        LET r == fault_wrapper(downstream)
        IN  /\ handler' = "FaultWrapper"
            /\ self' = NoneObj
            /\ request' = req
            /\ args' = [downstream |-> downstream]
            /\ result' = [kind |-> "return", value |-> r.value]
            /\ environ' = NoneObj
            /\ log' = r.log
            /\ response' = NoneObj

\* A Fault a handler returned is called as the WSGI application: Fault.__call__
FaultCall ==
    /\ handler \in {"execute_action", "FaultWrapper"}
    /\ result.value.kind = "Fault"
    /\ response = NoneObj
    /\ \E ctype \in best_match_content_type(request) :
        response' = Fault__call__(result.value, ctype)
    /\ UNCHANGED <<handler, self, request, args, result, environ, log>>

\* The request completes: everything scoped to it is discarded.
Finish ==
    /\ handler /= "none"
    /\ handler' = "none"
    /\ self' = NoneObj
    /\ request' = NoRequest
    /\ args' = NoneObj
    /\ result' = NoneObj
    /\ environ' = NoneObj
    /\ log' = <<>>
    /\ response' = NoneObj

Next ==
    \/ BestMatchContentType
    \/ VersionedURLMapCall
    \/ ExecuteAction
    \/ XMLDefault
    \/ ResultData
    \/ SerializeResponse
    \/ ContextMiddlewareCall
    \/ FaultWrapperCall
    \/ FaultCall
    \/ Finish

Spec == Init /\ [][Next]_vars

----------------------------------------------------------------------------
(* Properties *)

\* The Fault the current handler produced, if any.
CurrentFault ==
    IF handler = "VersionedURLMap" THEN result.app ELSE result.value

FaultRendered == response /= NoneObj /\ "fault_data" \in DOMAIN response

RaisedReddwarfError ==
    /\ handler = "execute_action"
    /\ args.has_action
    /\ args.outcome.kind = "raise"
    /\ args.outcome.family = "ReddwarfError"

\* C1: an error type listed in the exception table, raised by business logic
\* inside execute_action, gives a Fault whose status code is the status of the
\* webob class it is listed under; a ReddwarfError type that no list names
\* (even one derived from a listed type) gives a 400 fault.
C1_ConfiguredStatus ==
    RaisedReddwarfError =>
        LET listed == {c \in DOMAIN exception_map :
                          args.outcome.type \in Range(exception_map[c])}
            code == status_int(result.value.wrapped_exc.cls)
        IN  /\ result.value.kind = "Fault"
            /\ \A c \in listed : code = status_int(c)
            /\ listed = {} => code = 400
            /\ FaultRendered => response.status = code

C1_Witness ==
    /\ RaisedReddwarfError
    /\ args.outcome.type = "QuotaExceeded"
    /\ FaultRendered
    /\ response.status = 413

UncaughtAtBoundary ==
    \/ /\ handler = "execute_action"
       /\ args.has_action
       /\ args.outcome.kind = "raise"
       /\ args.outcome.family = "Exception"
    \/ /\ handler = "FaultWrapper"
       /\ args.downstream.kind = "raise"

\* The fault the same handler produces when the error's text is x instead.
BoundaryFaultFor(x) ==
    IF handler = "execute_action"
    THEN execute_action(TRUE, [args.outcome EXCEPT !.text = x]).value
    ELSE fault_wrapper([args.downstream EXCEPT !.text = x]).value

\* C2: an uncaught error reaching the dispatch boundary (execute_action's last
\* handler, or FaultWrapper) becomes a 500 fault whose body does not depend on
\* the error's internal text: any other text gives the identical body.
C2_NoInternalDetail ==
    (UncaughtAtBoundary /\ FaultRendered) =>
        /\ response.status = 500
        /\ \A x \in ErrorTexts :
              Fault__call__(BoundaryFaultFor(x), response.content_type).body
                  = response.body

EndsWith(path, ext) ==
    Len(path) >= 2 /\ path[Len(path) - 1] = "." /\ path[Len(path)] = ext

\* C3: a path ending in .json or .xml negotiates application/json or
\* application/xml respectively, whatever the Accept header says; only the
\* segment after the last dot counts.
C3_ExtensionWins ==
    handler = "best_match_content_type" =>
        /\ EndsWith(request.path, "json") => result.value = "application/json"
        /\ EndsWith(request.path, "xml") => result.value = "application/xml"

C3_Witness ==
    /\ handler = "best_match_content_type"
    /\ request.path = <<"json", ".", "xml">>
    /\ request.accept = <<[type |-> "application/json", version |-> None]>>
    /\ result.value = "application/xml"

VendorTypes == {"vendor", "vendor+json", "vendor+xml"}

PathHasVersion(path) ==
    \E i \in 1..Len(path) :
        i + 2 <= Len(path) /\ path[i] = "/" /\ path[i + 1] = "v"
        /\ path[i + 2] \in Digits

NotAcceptable(app) ==
    /\ app.kind = "Fault"
    /\ status_int(app.wrapped_exc.cls) = 406
    /\ app.wrapped_exc.detail = "version not supported"
    /\ response.status = 406

RoutedByHeader(version) ==
    IF <<"/", "v">> \o version \in self.urlmap
    THEN result.app = [kind |-> "subapp", key |-> <<"/", "v">> \o version]
    ELSE NotAcceptable(result.app)

C5_FaultDocument ==
    FaultRendered =>
        LET exc == CurrentFault.wrapped_exc
            doc == response.fault_data
            message == IF exc.detail /= "" THEN exc.detail ELSE explanation(exc.cls)
        IN  /\ Cardinality(DOMAIN doc) = 1
            /\ \A name \in DOMAIN doc :
                /\ name /= <<>>
                /\ {"code", "message"} \subseteq DOMAIN doc[name]
                /\ doc[name].code = status_int(exc.cls)
                /\ doc[name].message = message
                /\ response.content_type \in ContentTypes
                /\ IF response.content_type = "application/json"
                   THEN response.body.document = doc
                   ELSE /\ response.body.root = name
                        /\ response.body.attributes.code = status_int(exc.cls)
                        /\ response.body.children.message = message

C5_Witness ==
    /\ handler = "execute_action"
    /\ FaultRendered
    /\ CurrentFault.wrapped_exc = HTTPExc("HTTPConflict", "")
    /\ response.content_type = "application/xml"
    /\ response.fault_data =
          [n \in {<<"c", "onflict">>} |->
              [code |-> 409, message |-> "there was a conflict"]]

DownstreamReturned ==
    handler = "FaultWrapper" /\ args.downstream.kind = "return"

PlainTextError(resp) ==
    /\ resp.status \in {400, 401, 403, 404}
    /\ \E i \in 1..Len(resp.headerlist) :
          resp.headerlist[i] =
              [header |-> "Content-Type", value |-> "text/plain; charset=UTF-8"]

\* C6 as stated: a downstream response with status 400, 401, 403 or 404 and
\* Content-Type 'text/plain; charset=UTF-8' is rewritten into a fault whose
\* code equals the downstream status; any other response is returned unchanged.
C6_FaultCodeEqualsStatus ==
    DownstreamReturned =>
        LET resp == args.downstream.value
        IN  IF PlainTextError(resp)
            THEN /\ result.value.kind = "Fault"
                 /\ status_int(result.value.wrapped_exc.cls) = resp.status
            ELSE result.value = resp

\* C6 amended: a downstream response with status 400, 401, 403 or 404 and
\* Content-Type 'text/plain; charset=UTF-8' is rewritten into a fault of code
\* 400, 401, 401 and 404 respectively (403 becomes the 401 'unauthorized'
\* fault); any other response is returned unchanged.
C6_FaultCodeFromTable ==
    DownstreamReturned =>
        LET resp == args.downstream.value
            code == IF resp.status = 403 THEN 401 ELSE resp.status
        IN  IF PlainTextError(resp)
            THEN /\ result.value.kind = "Fault"
                 /\ result.value.wrapped_exc.detail = ""
                 /\ status_int(result.value.wrapped_exc.cls) = code
                 /\ FaultRendered => response.status = code
            ELSE result.value = resp

C6_Witness ==
    /\ DownstreamReturned
    /\ args.downstream.value.status = 403
    /\ PlainTextError(args.downstream.value)
    /\ FaultRendered
    /\ response.status = 401
    /\ DOMAIN response.fault_data = {<<"u", "nauthorized">>}

SerializationFailed ==
    /\ handler = "serialize_response"
    /\ super_serialize_response(args.action_result, args.accept,
                                args.json_fails).kind = "raise"

\* C7: when the action result is a finished response object and serializing it
\* fails, serialize_response returns that same response object.
C7_ResponsePassedThrough ==
    (SerializationFailed /\ args.action_result.kind = "Response") =>
        result = [kind |-> "return", value |-> args.action_result]

\* C8: when serializing a result that is not a finished response object fails,
\* serialize_response logs the failure and raises the same error; it does not
\* return.
C8_FailureReraised ==
    (SerializationFailed /\ args.action_result.kind /= "Response") =>
        /\ result.kind = "raise"
        /\ result.exc = super_serialize_response(args.action_result, args.accept,
                                                 args.json_fails).exc
        /\ \E i \in 1..Len(log) :
              log[i] = LogRecord("error", "unserializable result detected!")

C8_Witness ==
    /\ SerializationFailed
    /\ args.action_result = Result(Dict(<<"instance", "flavor">>), 200)
    /\ args.accept = "application/xml"
    /\ result = [kind |-> "raise",
                 exc |-> [type |-> "RuntimeError", text |-> "multiple root keys"]]

\* C9: the XML serializer raises, producing no document, for a mapping with two
\* or more keys other than 'links' and for a mapping with none; with exactly
\* one such key that key is the root, and 'links' is kept under it if present.
C9_SingleRootKey ==
    handler = "xml_default" =>
        LET roots == Range(args.data) \ {"links"}
        IN  /\ Cardinality(roots) /= 1 =>
                /\ result.kind = "raise"
                /\ \E i \in 1..Len(log) : log[i].level = "error"
            /\ Cardinality(roots) = 1 =>
                /\ result.kind = "return"
                /\ result.value.root \in roots
                /\ ("links" \in Range(args.data))
                      <=> (result.value.children = <<"links">>)

C9_Witness ==
    /\ handler = "xml_default"
    /\ args.data = <<"instance", "links", "flavor">>
    /\ result.kind = "raise"
    /\ result.exc.text = "multiple root keys"

\* C10: a request without X-Auth-Token makes process_request fail: no context
\* is stored under CONTEXT_KEY and the wrapped application is not called.
C10_MissingTokenRejected ==
    (handler = "ContextMiddleware" /\ "X-Auth-Token" \notin DOMAIN request.headers) =>
        /\ result.kind = "raise"
        /\ environ = NoneObj
        /\ ~result.application_called

C10_Witness ==
    /\ handler = "ContextMiddleware"
    /\ DOMAIN request.headers = {"X-Tenant-Id", "X-Role"}
    /\ request.headers["X-Role"] = <<"admin">>
    /\ result.kind = "raise"
    /\ result.exc.type = "KeyError"
    /\ environ = NoneObj

\* C11 as stated: a payload with type-specific projections is rendered through
\* the projection of the negotiated type and never through the projection of
\* the other type; a payload without projections is returned as it is for both
\* types.
C11_MatchingProjectionOnly ==
    handler = "Result.data" =>
        LET data == self.data
            xml == args.serialization_type = "application/xml"
        IN  /\ (xml /\ HasXml(data)) => result.value = data.data_for_xml
            /\ (~xml /\ HasJson(data)) => result.value = data.data_for_json
            /\ (xml /\ ~HasXml(data) /\ HasJson(data))
                  => result.value /= data.data_for_json
            /\ (~xml /\ ~HasJson(data) /\ HasXml(data))
                  => result.value /= data.data_for_xml
            /\ (~HasXml(data) /\ ~HasJson(data)) => result.value = data

\* C11 amended: data_for_xml is used for application/xml when the payload has
\* it; otherwise data_for_json is used when the payload has it, for either
\* type; otherwise the payload itself is returned.  So a payload with only
\* data_for_json is rendered through it for application/xml too, and a payload
\* with only data_for_xml is returned as it is for application/json.
C11_ProjectionWithJsonFallback ==
    handler = "Result.data" =>
        LET data == self.data
            xml == args.serialization_type = "application/xml"
        IN  /\ (xml /\ HasXml(data)) => result.value = data.data_for_xml
            /\ (~xml /\ HasJson(data)) => result.value = data.data_for_json
            /\ (xml /\ ~HasXml(data) /\ HasJson(data))
                  => result.value = data.data_for_json
            /\ (~xml /\ ~HasJson(data)) => result.value = data
            /\ (~HasXml(data) /\ ~HasJson(data)) => result.value = data

C11_Witness ==
    /\ handler = "Result.data"
    /\ self.data = [kind |-> "object", data_for_json |-> Dict(<<"instances">>)]
    /\ args.serialization_type = "application/xml"
    /\ result.value = Dict(<<"instances">>)

\* C12: the context's admin flag is set exactly when some entry of the
\* comma-separated X-Role header equals some configured admin role, letter
\* case ignored on both sides.
C12_AdminCaseInsensitive ==
    (handler = "ContextMiddleware" /\ result.kind = "return") =>
        LET entries == IF "X-Role" \in DOMAIN request.headers
                       THEN Range(request.headers["X-Role"]) ELSE {}
        IN  environ.is_admin <=>
                \E e \in entries : \E r \in self.admin_roles :
                    lower_role(e) = lower_role(r)

====
